---- MODULE Spec2Model ----
(***************************************************************************)
(* A model of yaffsreader (src/reader.go): the YAFFS2 spare-tag decoder    *)
(* Yaffs2SpareRaw.Parse, the geometry detector detectSettings and the scan *)
(* loops of main.                                                          *)
(*                                                                         *)
(* 32-bit unsigned values are pairs <<hi, lo>> of 16-bit halves, so that   *)
(* every uint32 of the program (0xefffff00, 0xffff0000, ...) is            *)
(* represented exactly.  Bytes are 0..255.                                 *)
(***************************************************************************)
EXTENDS Integers, Sequences, FiniteSets, TLC

(***************************************************************************)
(* uint32 arithmetic                                                       *)
(***************************************************************************)
\* The uint32 with value n, for 0 <= n < 2^31.
U(n) == <<n \div 65536, n % 65536>>

\* a < b, a <= b, a > b on uint32.
Lt(a, b) == a[1] < b[1] \/ (a[1] = b[1] /\ a[2] < b[2])
Le(a, b) == a = b \/ Lt(a, b)
Gt(a, b) == Lt(b, a)

RECURSIVE BitAnd(_, _, _)
\* Bitwise and of the n low bits of a and b.
BitAnd(a, b, n) ==
    IF n = 0 THEN 0
    ELSE (IF a % 2 = 1 /\ b % 2 = 1 THEN 1 ELSE 0)
         + 2 * BitAnd(a \div 2, b \div 2, n - 1)

\* x & y on uint32.
And32(x, y) == <<BitAnd(x[1], y[1], 16), BitAnd(x[2], y[2], 16)>>

\* x >> s on uint32, for 16 <= s < 32.
Shr32(x, s) == <<0, x[1] \div (2 ^ (s - 16))>>

\* The little-endian uint32 of four bytes (binary.LittleEndian).
LE32(b0, b1, b2, b3) == <<b2 + 256 * b3, b0 + 256 * b1>>

\* Byte i (0 = least significant) of a uint32, as binary.LittleEndian lays it out.
ByteOf(u, i) ==
    CASE i = 0 -> u[2] % 256
      [] i = 1 -> u[2] \div 256
      [] i = 2 -> u[1] % 256
      [] i = 3 -> u[1] \div 256

(***************************************************************************)
(* Constants of reader.go                                                  *)
(***************************************************************************)
YAFFS_MAX_NAME_LENGTH == 255
YAFFS_MAX_ALIAS_LENGTH == 159

YAFFS_LOWEST_SEQUENCE_NUMBER == <<0, 4096>>          \* 0x00001000
YAFFS_HIGHEST_SEQUENCE_NUMBER == <<61439, 65280>>    \* 0xefffff00
YAFFS_SEQUENCE_BAD_BLOCK == <<65535, 0>>             \* 0xffff0000

EXTRA_HEADER_INFO_FLAG == <<32768, 0>>               \* 0x80000000
EXTRA_SHRINK_FLAG == <<16384, 0>>                    \* 0x40000000
EXTRA_SHADOWS_FLAG == <<8192, 0>>                    \* 0x20000000
\* Mutant of NOT_ALL_EXTRA_FLAGS: 0xffffff, a digit short.
NotAllExtraFlagsShort == <<255, 65535>>
NOT_ALL_EXTRA_FLAGS == <<4095, 65535>>               \* 0xfffffff

EXTRA_OBJECT_TYPE_SHIFT == 28
NOT_EXTRA_OBJECT_TYPE_MASK == <<4095, 65535>>        \* 0xfffffff

YAFFS_OBJECT_SPACE == 262144                         \* 0x40000
YAFFS_MAX_OBJECT_ID == U(YAFFS_OBJECT_SPACE - 1)

YAFFS_TNODES_LEVEL0_BITS == 4
YAFFS_TNODES_INTERNAL_BITS == YAFFS_TNODES_LEVEL0_BITS - 1
YAFFS_TNODES_MAX_LEVEL == 8
YAFFS_TNODES_MAX_BITS ==
    YAFFS_TNODES_LEVEL0_BITS + YAFFS_TNODES_INTERNAL_BITS * YAFFS_TNODES_MAX_LEVEL
\* Mutant of YAFFS_MAX_CHUNK_ID: one tree level short.
MaxChunkIdShortTree == U(2 ^ (YAFFS_TNODES_MAX_BITS - YAFFS_TNODES_INTERNAL_BITS) - 1)
YAFFS_MAX_CHUNK_ID == U(2 ^ YAFFS_TNODES_MAX_BITS - 1)

YAFFS_NOBJECT_BUCKETS == 256

YAFFS_OBJECT_TYPE_DIRECTORY == U(3)

(***************************************************************************)
(* Yaffs2SpareRaw.Parse                                                    *)
(***************************************************************************)
\* The nil *Yaffs2Spare.
Nil == [valid |-> FALSE]

objectIDValid(objectID) ==
    IF objectID \in {U(1), U(2), U(3), U(4), U(16)} THEN TRUE
    ELSE IF Lt(objectID, U(YAFFS_NOBJECT_BUCKETS)) \/ Gt(objectID, YAFFS_MAX_OBJECT_ID)
         THEN FALSE
         ELSE TRUE

\* The sequence-number check that opens Parse: TRUE when Parse returns nil on it.
SeqNumberRejected(s) ==
    \/ s = YAFFS_SEQUENCE_BAD_BLOCK
    \/ Lt(s, YAFFS_LOWEST_SEQUENCE_NUMBER)
    \/ Gt(s, YAFFS_HIGHEST_SEQUENCE_NUMBER)

\* The tag as built before the flag test (lines 114-119).
PlainSpare(s) ==
    [valid |-> TRUE, SeqNumber |-> s.SeqNumber, ObjectID |-> s.ObjectID,
     ChunkID |-> s.ChunkID, NumberBytes |-> s.NumberBytes,
     ExtraValid |-> FALSE, ParentID |-> U(0), IsShrink |-> FALSE,
     Shadows |-> FALSE, ObjType |-> U(0)]

\* The tag after the extended-tag branch (lines 122-131).
ExtraSpare(s) ==
    IF And32(s.ChunkID, EXTRA_HEADER_INFO_FLAG) # U(0)
    THEN [PlainSpare(s) EXCEPT
            !.ChunkID = U(0),
            !.NumberBytes = U(0),
            !.ExtraValid = TRUE,
            !.ParentID = And32(s.ChunkID, NOT_ALL_EXTRA_FLAGS),
            !.IsShrink = And32(s.ChunkID, EXTRA_SHRINK_FLAG) # U(0),
            !.Shadows = And32(s.ChunkID, EXTRA_SHADOWS_FLAG) # U(0),
            !.ObjType = Shr32(s.ObjectID, EXTRA_OBJECT_TYPE_SHIFT),
            !.ObjectID = And32(s.ObjectID, NOT_EXTRA_OBJECT_TYPE_MASK)]
    ELSE PlainSpare(s)

\* The checks after the extended-tag branch (lines 134-138).
CheckedSpare(spare) ==
    IF ~objectIDValid(spare.ObjectID) \/ Gt(spare.ChunkID, YAFFS_MAX_CHUNK_ID)
    THEN Nil
    ELSE spare

Parse(s) ==
    IF SeqNumberRejected(s.SeqNumber) THEN Nil ELSE CheckedSpare(ExtraSpare(s))

(***************************************************************************)
(* Record layouts read by binary.Read                                      *)
(***************************************************************************)
\* binary.Size(Yaffs2SpareRaw): four uint32.
SpareRawSize == 4 + 4 + 4 + 4

\* binary.Size(ObjectHeader): the sum of the fields' sizes, in declaration order.
ObjectHeaderSize ==
    4 + 4 + 2 + (YAFFS_MAX_NAME_LENGTH + 1)
    + 4 + 4 + 4 + 4 + 4 + 4
    + 4 + 4
    + (YAFFS_MAX_ALIAS_LENGTH + 1)
    + 4
    + 8 + 8 + 8
    + 4 + 4 + 4
    + 4
    + 4
    + 4

\* Byte offsets of the header fields the scan uses.
OffObjectType == 0
OffParentObjectID == 4
OffChecksum == 8
OffName == 10

(***************************************************************************)
(* Images: the byte sources the program is run on.  An image is laid out   *)
(* with a geometry geo = <<page size, spare size, spare skip>> as a        *)
(* sequence of page+spare pairs, each of a named kind, followed by tail    *)
(* trailing bytes (zeros).  ByteAt gives every byte of it, so the program  *)
(* reads it under any candidate geometry, not only the one it was built    *)
(* with.                                                                   *)
(***************************************************************************)
MaxPairs == 3
TailLen == 100

\* "root", "bad" as bytes.
NameRoot == <<114, 111, 111, 116>>
NameBad == <<98, 97, 100>>

AllFF == <<65535, 65535>>

Kinds == {"H", "B", "D", "E", "P", "S"}

\* The four raw tag fields stored in the spare of a pair of each kind.
\*   H  header of the root directory, plain tag, chunkID 0
\*   B  header of a file whose checksum field is not 0xFFFF, extended tag
\*      (header-info flag set, type 1, parent 1)
\*   D  data chunk: valid tag with chunkID 1
\*   E  erased pair: page and spare all 0xFF
\*   P  erased page with a live spare (valid tag, chunkID 0)
\*   S  header page with an erased spare (an invalid tag)
KindTag(kind) ==
    CASE kind = "H" -> [SeqNumber |-> <<0, 4096>>, ObjectID |-> U(1),
                        ChunkID |-> U(0), NumberBytes |-> U(0)]
      [] kind = "B" -> [SeqNumber |-> <<0, 4097>>, ObjectID |-> <<4096, 258>>,
                        ChunkID |-> <<32768, 1>>, NumberBytes |-> <<0, 65535>>]
      [] kind = "D" -> [SeqNumber |-> <<0, 4097>>, ObjectID |-> U(2),
                        ChunkID |-> U(1), NumberBytes |-> U(2048)]
      [] kind = "P" -> [SeqNumber |-> <<0, 4098>>, ObjectID |-> U(259),
                        ChunkID |-> U(0), NumberBytes |-> U(0)]
      [] OTHER -> [SeqNumber |-> AllFF, ObjectID |-> AllFF,
                   ChunkID |-> AllFF, NumberBytes |-> AllFF]

\* The header stored in the page of a header pair.
KindHeader(kind) ==
    CASE kind = "B" -> [ObjectType |-> U(1), ParentObjectID |-> U(1),
                        Checksum |-> <<255, 0>>, Name |-> NameBad]
      [] OTHER -> [ObjectType |-> YAFFS_OBJECT_TYPE_DIRECTORY, ParentObjectID |-> U(1),
                   Checksum |-> <<255, 255>>, Name |-> NameRoot]

\* The length of the written part of the page of a pair: the page bytes at
\* and after it are erased (0xFF).  A header page is written up to the end of
\* its zero-padded name, a data page entirely, an erased page not at all.
PageWritten(kind, pageSize) ==
    IF kind \in {"E", "P"} THEN 0
    ELSE IF kind = "D" THEN pageSize
    ELSE OffName + YAFFS_MAX_NAME_LENGTH

\* Byte r of the page of a pair: a header page holds the header fields and
\* the name, zero-padded; a data page holds 0x41.
PageByte(kind, pageSize, r) ==
    IF r >= PageWritten(kind, pageSize) THEN 255
    ELSE IF kind = "D" THEN 65
    ELSE LET h == KindHeader(kind)
         IN  IF r < OffParentObjectID THEN ByteOf(h.ObjectType, r - OffObjectType)
             ELSE IF r < OffChecksum THEN ByteOf(h.ParentObjectID, r - OffParentObjectID)
             ELSE IF r < OffName THEN h.Checksum[r - OffChecksum + 1]
             ELSE IF r < OffName + Len(h.Name) THEN h.Name[r - OffName + 1]
             ELSE 0

\* Byte r of the spare of a pair: the raw tag at offset skip, 0xFF elsewhere.
SpareByte(kind, skip, r) ==
    IF r < skip \/ r >= skip + SpareRawSize THEN 255
    ELSE LET t == KindTag(kind)
             f == (r - skip) \div 4
             u == CASE f = 0 -> t.SeqNumber
                    [] f = 1 -> t.ObjectID
                    [] f = 2 -> t.ChunkID
                    [] f = 3 -> t.NumberBytes
         IN  ByteOf(u, (r - skip) % 4)

Stride(img) == img.geo[1] + img.geo[2]
Size(img) == Len(img.pairs) * Stride(img) + img.tail

ByteAt(img, off) ==
    LET n == off \div Stride(img)
        r == off % Stride(img)
    IN  IF n >= Len(img.pairs) THEN 0
        ELSE IF r < img.geo[1] THEN PageByte(img.pairs[n + 1], img.geo[1], r)
        ELSE SpareByte(img.pairs[n + 1], img.geo[3], r - img.geo[1])

BuildGeos == {<<2048, 64, 0>>, <<1024, 32, 2>>}

PairSeqs == UNION {[1..n -> Kinds] : n \in 0..MaxPairs}

Images == [geo : BuildGeos, pairs : PairSeqs, tail : {0, TailLen}]

(***************************************************************************)
(* Reading the image                                                       *)
(***************************************************************************)
\* A buffer filled by a full read: the len bytes of the image from off.
Buf(off, len) == [off |-> off, len |-> len]

\* io.ReadFull(image, buf) with the cursor at p and len(buf) = n: the read is
\* full when n bytes are left; a short read consumes what is left.
ReadFull(img, p, n) ==
    IF p + n <= Size(img)
    THEN [ok |-> TRUE, pos |-> p + n, buf |-> Buf(p, n)]
    ELSE [ok |-> FALSE, pos |-> Size(img), buf |-> Buf(p, Size(img) - p)]

Min(a, b) == IF a <= b THEN a ELSE b
Max(a, b) == IF a >= b THEN a ELSE b

\* Every byte of the image from offset lo up to, not including, hi is 0xFF.
ErasedIn(img, lo, hi) == \A i \in lo..(hi - 1) : ByteAt(img, i) = 255

\* checkBlockEmpty on a buffer read from the image: no byte of it differs
\* from 0xFF.  The loop over the bytes is run on the written parts of the
\* pairs the buffer overlaps (the written part of each page, the raw tag of
\* each spare) and on the trailing bytes: every other byte of an image is
\* 0xFF by ByteAt, and passes the loop's test.
checkBlockEmpty(img, buf) ==
    LET lo == buf.off
        hi == buf.off + buf.len
        np == Len(img.pairs)
    IN  /\ \A n \in (lo \div Stride(img))..Min((hi - 1) \div Stride(img), np - 1) :
              LET base == n * Stride(img)
                  tag == base + img.geo[1] + img.geo[3]
              IN  /\ ErasedIn(img, Max(lo, base),
                              Min(hi, base + PageWritten(img.pairs[n + 1], img.geo[1])))
                  /\ ErasedIn(img, Max(lo, tag), Min(hi, tag + SpareRawSize))
        /\ ErasedIn(img, Max(lo, np * Stride(img)), hi)

\* Mutant of KeepPair: the pass breaks when the page or the spare is empty.
KeepPairEitherEmpty(img, pr, sr) ==
    [ok |-> ~(checkBlockEmpty(img, pr.buf) \/ checkBlockEmpty(img, sr.buf)),
     pos |-> sr.pos, page |-> pr.buf, spare |-> sr.buf]

\* The end of a pass of the read loops, both reads being full: the pass
\* breaks on a pair that is empty, and appends the pair otherwise.
KeepPair(img, pr, sr) ==
    [ok |-> ~(checkBlockEmpty(img, pr.buf) /\ checkBlockEmpty(img, sr.buf)),
     pos |-> sr.pos, page |-> pr.buf, spare |-> sr.buf]

\* The pass after a full read of the page: the read of the spare.
ReadSpare(img, pr, sr) ==
    IF ~sr.ok
    THEN [ok |-> FALSE, pos |-> sr.pos, page |-> pr.buf, spare |-> sr.buf]
    ELSE KeepPair(img, pr, sr)

\* The pass after the read of the page.
ReadPage(img, pr, spareSize) ==
    IF ~pr.ok
    THEN [ok |-> FALSE, pos |-> pr.pos, page |-> pr.buf, spare |-> pr.buf]
    ELSE ReadSpare(img, pr, ReadFull(img, pr.pos, spareSize))

\* One pass of the body of the read loops (main 233-250, detectSettings
\* 362-379), the cursor at p: ok when the pair is appended, ~ok when the loop
\* breaks; pos is the cursor it leaves.
ReadPair(img, p, pageSize, spareSize) ==
    ReadPage(img, ReadFull(img, p, pageSize), spareSize)

\* The little-endian uint32 at offset o of the image.
Word(img, o) ==
    LE32(ByteAt(img, o), ByteAt(img, o + 1), ByteAt(img, o + 2), ByteAt(img, o + 3))

\* binary.Read(bytes.NewReader(spare[skip:]), byteOrder, &Yaffs2SpareRaw{}):
\* an error when fewer than SpareRawSize bytes follow skip.
ReadSpareRaw(img, spare, skip) ==
    IF spare.len - skip < SpareRawSize
    THEN [ok |-> FALSE]
    ELSE LET o == spare.off + skip
         IN  [ok |-> TRUE,
              raw |-> [SeqNumber |-> Word(img, o), ObjectID |-> Word(img, o + 4),
                       ChunkID |-> Word(img, o + 8), NumberBytes |-> Word(img, o + 12)]]

\* binary.Read(bytes.NewReader(page), byteOrder, &ObjectHeader{}): an error
\* when the page is shorter than the header; the fields the scan uses.
ReadHeader(img, page) ==
    IF page.len < ObjectHeaderSize
    THEN [ok |-> FALSE]
    ELSE [ok |-> TRUE,
          ObjectType |-> Word(img, page.off + OffObjectType),
          ParentObjectID |-> Word(img, page.off + OffParentObjectID),
          Checksum |-> <<ByteAt(img, page.off + OffChecksum),
                         ByteAt(img, page.off + OffChecksum + 1)>>,
          Name |-> [i \in 1..(YAFFS_MAX_NAME_LENGTH + 1) |->
                        ByteAt(img, page.off + OffName + i - 1)]]

\* Mutant of CToGoString: the first zero byte is kept.
CToGoStringKeepsNul(c) ==
    LET zeros == {i \in 1..Len(c) : c[i] = 0}
    IN  IF zeros = {} THEN c
        ELSE SubSeq(c, 1, CHOOSE i \in zeros : \A j \in zeros : i <= j)

\* The bytes of c before its first zero byte (all of c when it has none).
CToGoString(c) ==
    LET zeros == {i \in 1..Len(c) : c[i] = 0}
    IN  IF zeros = {} THEN c
        ELSE SubSeq(c, 1, (CHOOSE i \in zeros : \A j \in zeros : i <= j) - 1)

\* Mutant of ChecksumOK: only the first byte is compared.
ChecksumFirstByteOnly(header) == header.Checksum[1] = 255

\* header.Checksum equals []byte{0xFF, 0xFF}.
ChecksumOK(header) == header.Checksum = <<255, 255>>

(***************************************************************************)
(* detectSettings                                                          *)
(***************************************************************************)
pageSizes == <<1024, 2048, 4096, 8192, 16384>>
\* Mutant of spareSizes: the 16-byte spare of small-page flash is tried too.
spareSizesWithSmallSpare == <<16, 32, 64, 128, 256, 512>>
spareSizes == <<32, 64, 128, 256, 512>>
spareSkip == <<0, 2>>

Settings(pageSize, spareSize, skip) ==
    [PageSize |-> pageSize, SpareSize |-> spareSize, SpareSkip |-> skip]

NumCandidates == Len(pageSizes) * Len(spareSizes) * Len(spareSkip)

\* The candidate of pass ci (0-based) of the three nested loops: page size
\* outermost, then spare size, then skip.
Candidate(ci) ==
    Settings(pageSizes[(ci \div (Len(spareSizes) * Len(spareSkip))) + 1],
             spareSizes[((ci \div Len(spareSkip)) % Len(spareSizes)) + 1],
             spareSkip[(ci % Len(spareSkip)) + 1])

\* Mutant of SeekStart: the cursor is left where it is.
SeekStartNoRewind(p) == p

\* image.Seek(0, 0): the cursor after the seek.
SeekStart(p) == 0

\* The second pass of the read loop of a probe, r0 being the first.
ProbeSecond(r0, r1) ==
    IF ~r1.ok THEN [pairs |-> <<r0>>, pos |-> r1.pos]
    ELSE [pairs |-> <<r0, r1>>, pos |-> r1.pos]

\* The read loop of a probe after its first pass r0.
ProbeFirst(img, c, r0) ==
    IF ~r0.ok THEN [pairs |-> <<>>, pos |-> r0.pos]
    ELSE ProbeSecond(r0, ReadPair(img, r0.pos, c.PageSize, c.SpareSize))

\* The two-pass read loop of a probe (lines 357-380), from cursor p: the
\* pairs appended and the cursor it leaves.
ProbeRead(img, p, c) ==
    ProbeFirst(img, c, ReadPair(img, p, c.PageSize, c.SpareSize))

\* firstSpare == nil || firstSpare.ChunkID != 0 does not hold.
FirstSpareOK(spare) == spare.valid /\ spare.ChunkID = U(0)

\* The verdict on the two raw tags read (lines 389-420): "fatal" (log.Fatal
\* on a binary.Read error), "continue" or "accept".
SparesVerdict(first, second) ==
    IF ~first.ok THEN "fatal"
    ELSE IF ~FirstSpareOK(Parse(first.raw)) THEN "continue"
    ELSE IF ~second.ok THEN "fatal"
    ELSE IF ~Parse(second.raw).valid THEN "continue"
    ELSE "accept"

\* The verdict of one probe on the pairs it read (lines 382-420).
ProbeVerdict(img, pairs, c) ==
    IF Len(pairs) < 2 THEN "continue"
    ELSE SparesVerdict(ReadSpareRaw(img, pairs[1].spare, c.SpareSkip),
                       ReadSpareRaw(img, pairs[2].spare, c.SpareSkip))

\* Mutant of DefaultSettings: the smallest geometry.
DefaultSettingsSmallPage == Settings(1024, 32, 0)

\* The settings main falls back to when detectSettings returns an error.
DefaultSettings == Settings(2048, 64, 0)

(***************************************************************************)
(* main: one pass of the decode loop                                       *)
(***************************************************************************)
\* The decode loop on a header page (lines 283-295).
DecodeHeader(header) ==
    IF ~header.ok THEN [step |-> "fatal", pageRead |-> TRUE]
    ELSE IF ~ChecksumOK(header) THEN [step |-> "abort", pageRead |-> TRUE]
    ELSE [step |-> "emit", pageRead |-> TRUE]

\* Mutant of DecodeSpare: an invalid spare ends the loop.
DecodeSpareBreaksOnInvalid(img, page, spare) ==
    IF ~spare.valid THEN [step |-> "abort", pageRead |-> FALSE]
    ELSE IF spare.ChunkID # U(0) THEN [step |-> "data", pageRead |-> FALSE]
    ELSE DecodeHeader(ReadHeader(img, page))

\* The decode loop on a decoded spare (lines 276-297).
DecodeSpare(img, page, spare) ==
    IF ~spare.valid THEN [step |-> "skip", pageRead |-> FALSE]
    ELSE IF spare.ChunkID # U(0) THEN [step |-> "data", pageRead |-> FALSE]
    ELSE DecodeHeader(ReadHeader(img, page))

\* The decode loop on a raw spare (lines 268-274).
DecodeRaw(img, page, raw) ==
    IF ~raw.ok THEN [step |-> "fatal", pageRead |-> FALSE]
    ELSE DecodeSpare(img, page, Parse(raw.raw))

\* What the body of the decode loop (lines 268-297) does with one pair:
\*   "fatal"  log.Fatal on a binary.Read error
\*   "skip"   invalid spare, continue
\*   "data"   valid tag with a nonzero chunkID: nothing to parse
\*   "abort"  header checksum mismatch, break
\*   "emit"   header logged
\* pageRead tells whether the page was decoded as a header.
DecodePair(img, st, page, spare) ==
    DecodeRaw(img, page, ReadSpareRaw(img, spare, st.SpareSkip))

\* The line logged for a header: its type and its name (line 295).
LoggedLine(header) ==
    [ObjectType |-> header.ObjectType, Name |-> CToGoString(header.Name)]

HeaderLine(img, page) == LoggedLine(ReadHeader(img, page))

(***************************************************************************)
(* State                                                                   *)
(***************************************************************************)
VARIABLES
    image,        \* the byte source (os.Args[1])
    pc,           \* where the program is
    ci,           \* detectSettings: the pass of the candidate loops
    pos,          \* the read cursor of image
    detected,     \* detectSettings' returned settings
    settings,     \* main's settings
    pages,        \* main's pages, as buffers
    spares,       \* main's spares, as buffers
    k,            \* the index of the decode loop
    emitted,      \* the headers logged, in order, each with its pair index
    spareParsed,  \* the pair indices whose spare tag was decoded
    pageDecoded,  \* the pair indices whose page was decoded as a header
    outcome,      \* how the run ended: "", "eof", "checksum" or "fatal"
    tin,          \* tag decoder: the tag fields to encode
    tenc,         \* tag decoder: how they were encoded
    traw,         \* tag decoder: the Yaffs2SpareRaw
    tout,         \* tag decoder: Parse's result
    tpc           \* tag decoder: "off", "input", "raw" or "parsed"

progVars == <<image, pc, ci, pos, detected, settings, pages, spares, k,
              emitted, spareParsed, pageDecoded, outcome>>
tagVars == <<tin, tenc, traw, tout, tpc>>
vars == <<progVars, tagVars>>

NoSettings == Settings(0, 0, 0)
NoRaw == [SeqNumber |-> U(0), ObjectID |-> U(0), ChunkID |-> U(0), NumberBytes |-> U(0)]
NoTag == [seq |-> U(0), obj |-> U(0), chunk |-> U(0), nbytes |-> U(0)]
NoEnc == [extra |-> FALSE, shrink |-> FALSE, shadow |-> FALSE, type |-> 0]

TagOff ==
    /\ tin = NoTag
    /\ tenc = NoEnc
    /\ traw = NoRaw
    /\ tout = Nil
    /\ tpc = "off"

Init ==
    /\ image \in Images
    /\ pc = "detect"
    /\ ci = 0
    /\ pos = 0
    /\ detected = NoSettings
    /\ settings = NoSettings
    /\ pages = <<>>
    /\ spares = <<>>
    /\ k = 0
    /\ emitted = <<>>
    /\ spareParsed = {}
    /\ pageDecoded = {}
    /\ outcome = ""
    /\ TagOff

(***************************************************************************)
(* detectSettings, one candidate per step                                  *)
(***************************************************************************)
\* The end of a pass of the innermost loop, c being the candidate, p the
\* cursor the reads left and verdict the verdict on what was read.
DetectVerdict(c, p, verdict) ==
    /\ pos' = p
    /\ ci' = IF verdict = "continue" THEN ci + 1 ELSE ci
    /\ detected' = IF verdict = "accept" THEN c ELSE detected
    /\ pc' = CASE verdict = "accept" -> "detect_ok"
               [] verdict = "fatal" -> "done"
               [] OTHER -> "detect"
    /\ outcome' = IF verdict = "fatal" THEN "fatal" ELSE outcome

DetectRead(c, rd) == DetectVerdict(c, rd.pos, ProbeVerdict(image, rd.pairs, c))

\* One pass of the innermost loop (lines 349-421).
DetectProbe ==
    /\ pc = "detect"
    /\ ci < NumCandidates
    /\ DetectRead(Candidate(ci), ProbeRead(image, SeekStart(pos), Candidate(ci)))
    /\ UNCHANGED <<image, settings, pages, spares, k, emitted, spareParsed,
                   pageDecoded, tagVars>>

\* The loops are exhausted: return nil, errors.New(...) (line 425).
DetectNone ==
    /\ pc = "detect"
    /\ ci = NumCandidates
    /\ pc' = "detect_err"
    /\ UNCHANGED <<image, ci, pos, detected, settings, pages, spares, k, emitted,
                   spareParsed, pageDecoded, outcome, tagVars>>

(***************************************************************************)
(* main                                                                    *)
(***************************************************************************)
\* err != nil: the default settings (lines 191-198), then the seek of 203.
UseDefault ==
    /\ pc = "detect_err"
    /\ settings' = DefaultSettings
    /\ pos' = SeekStart(pos)
    /\ pc' = "read"
    /\ UNCHANGED <<image, ci, detected, pages, spares, k, emitted, spareParsed,
                   pageDecoded, outcome, tagVars>>

\* err == nil: the detected settings (line 200), then the seek of 203.
UseDetected ==
    /\ pc = "detect_ok"
    /\ settings' = detected
    /\ pos' = SeekStart(pos)
    /\ pc' = "read"
    /\ UNCHANGED <<image, ci, detected, pages, spares, k, emitted, spareParsed,
                   pageDecoded, outcome, tagVars>>

\* The end of a pass of the read loop, r being what the pass read.
ScanPair(r) ==
    /\ pos' = r.pos
    /\ pages' = IF r.ok THEN Append(pages, r.page) ELSE pages
    /\ spares' = IF r.ok THEN Append(spares, r.spare) ELSE spares
    /\ pc' = CASE r.ok -> "read"
               [] Len(pages) # Len(spares) -> "done"
               [] OTHER -> "decode"
    /\ outcome' = IF ~r.ok /\ Len(pages) # Len(spares) THEN "fatal" ELSE outcome

\* One pass of the read loop (lines 232-251); when it breaks, the length
\* check of 258 and the start of the decode loop.
ScanRead ==
    /\ pc = "read"
    /\ ScanPair(ReadPair(image, pos, settings.PageSize, settings.SpareSize))
    /\ UNCHANGED <<image, ci, detected, settings, k, emitted, spareParsed,
                   pageDecoded, tagVars>>

\* The end of a pass of the decode loop, d being what the pass did.
ScanStep(d) ==
    /\ spareParsed' = IF d.step = "fatal" /\ ~d.pageRead THEN spareParsed
                      ELSE spareParsed \cup {k}
    /\ pageDecoded' = IF d.pageRead THEN pageDecoded \cup {k} ELSE pageDecoded
    /\ emitted' = IF d.step = "emit"
                  THEN Append(emitted, [idx |-> k, line |-> HeaderLine(image, pages[k + 1])])
                  ELSE emitted
    /\ k' = IF d.step \in {"skip", "data", "emit"} THEN k + 1 ELSE k
    /\ pc' = IF d.step \in {"fatal", "abort"} THEN "done" ELSE "decode"
    /\ outcome' = CASE d.step = "fatal" -> "fatal"
                    [] d.step = "abort" -> "checksum"
                    [] OTHER -> outcome

\* One pass of the decode loop (lines 263-300).
ScanDecode ==
    /\ pc = "decode"
    /\ k < Len(pages)
    /\ ScanStep(DecodePair(image, settings, pages[k + 1], spares[k + 1]))
    /\ UNCHANGED <<image, ci, pos, detected, settings, pages, spares, tagVars>>

\* The decode loop has run over every pair read.
ScanEnd ==
    /\ pc = "decode"
    /\ k = Len(pages)
    /\ pc' = "done"
    /\ outcome' = "eof"
    /\ UNCHANGED <<image, ci, pos, detected, settings, pages, spares, k, emitted,
                   spareParsed, pageDecoded, tagVars>>

Next ==
    \/ DetectProbe
    \/ DetectNone
    \/ UseDefault
    \/ UseDetected
    \/ ScanRead
    \/ ScanDecode
    \/ ScanEnd

Spec == Init /\ [][Next]_vars

(***************************************************************************)
(* The tag decoder on its own: tag fields are drawn at and around every    *)
(* boundary Parse tests, laid out as a raw tag, plain or extended, and     *)
(* decoded.                                                                *)
(***************************************************************************)
NearDelta == 1

\* x + d on uint32 for a small d, as a pair that is out of range on overflow.
Offset32(x, d) ==
    IF x[2] + d < 0 THEN <<x[1] - 1, x[2] + d + 65536>>
    ELSE IF x[2] + d > 65535 THEN <<x[1] + 1, x[2] + d - 65536>>
    ELSE <<x[1], x[2] + d>>

IsU32(x) == x[1] \in 0..65535 /\ x[2] \in 0..65535

\* The uint32 values within NearDelta of one of bs.
Near(bs) ==
    {x \in {Offset32(b, d) : b \in bs, d \in (0 - NearDelta)..NearDelta} : IsU32(x)}

SeqSamples == Near({<<0, 0>>, <<0, 4096>>, <<61439, 65280>>, <<65535, 0>>, <<65535, 65535>>})
ObjSamples == Near({<<0, 1>>, <<0, 4>>, <<0, 16>>, <<0, 256>>, <<3, 65535>>})
ChunkSamples == Near({<<0, 0>>, <<4095, 65535>>, <<32768, 0>>, <<65535, 65535>>})
ByteCountSamples == {<<0, 0>>, <<0, 2048>>, <<65535, 65535>>}
TypeSamples == 0..15

InitTag ==
    /\ tin \in [seq : SeqSamples, obj : ObjSamples, chunk : ChunkSamples,
                nbytes : ByteCountSamples]
    /\ tenc = NoEnc
    /\ traw = NoRaw
    /\ tout = Nil
    /\ tpc = "input"
    /\ image = [geo |-> <<2048, 64, 0>>, pairs |-> <<>>, tail |-> 0]
    /\ pc = "off"
    /\ ci = 0
    /\ pos = 0
    /\ detected = NoSettings
    /\ settings = NoSettings
    /\ pages = <<>>
    /\ spares = <<>>
    /\ k = 0
    /\ emitted = <<>>
    /\ spareParsed = {}
    /\ pageDecoded = {}
    /\ outcome = ""

\* The fields laid out as a plain raw tag: each field verbatim.
EncodePlain ==
    /\ tpc = "input"
    /\ traw' = [SeqNumber |-> tin.seq, ObjectID |-> tin.obj,
                ChunkID |-> tin.chunk, NumberBytes |-> tin.nbytes]
    /\ tenc' = NoEnc
    /\ tpc' = "raw"
    /\ UNCHANGED <<tin, tout, progVars>>

\* The fields laid out as an extended raw tag, tin.chunk being the parent
\* object id: bit 31 of the chunk id set, the shrink and shadow flags at bits
\* 30 and 29, the parent in the low 28 bits; the object type in the top four
\* bits of the object id.
EncodeExtra ==
    /\ tpc = "input"
    /\ tin.chunk[1] < 4096
    /\ tin.obj[1] < 4096
    /\ \E shrink \in BOOLEAN, shadow \in BOOLEAN, type \in TypeSamples :
          /\ traw' = [SeqNumber |-> tin.seq,
                      ObjectID |-> <<type * 4096 + tin.obj[1], tin.obj[2]>>,
                      ChunkID |-> <<32768 + (IF shrink THEN 16384 ELSE 0)
                                          + (IF shadow THEN 8192 ELSE 0)
                                          + tin.chunk[1],
                                    tin.chunk[2]>>,
                      NumberBytes |-> tin.nbytes]
          /\ tenc' = [extra |-> TRUE, shrink |-> shrink, shadow |-> shadow, type |-> type]
    /\ tpc' = "raw"
    /\ UNCHANGED <<tin, tout, progVars>>

\* spare := spareRaw.Parse()
ParseTag ==
    /\ tpc = "raw"
    /\ tout' = Parse(traw)
    /\ tpc' = "parsed"
    /\ UNCHANGED <<tin, tenc, traw, progVars>>

NextTag ==
    \/ EncodePlain
    \/ EncodeExtra
    \/ ParseTag

SpecTag == InitTag /\ [][NextTag]_vars

(***************************************************************************)
(* The tag decoder: claims C2, C3, C4 (checked under SpecTag)              *)
(***************************************************************************)
\* A valid sequence number: 0x1000 <= s < 0xefffff00 and s # 0xffff0000.
SeqInRange(s) == Le(<<0, 4096>>, s) /\ Lt(s, <<61439, 65280>>) /\ s # <<65535, 0>>

\* A valid object id: 1, 2, 3, 4, 0x10, or in 256..0x3ffff.
ObjInRange(o) ==
    \/ o \in {<<0, 1>>, <<0, 2>>, <<0, 3>>, <<0, 4>>, <<0, 16>>}
    \/ (Le(<<0, 256>>, o) /\ Le(o, <<3, 65535>>))

\* C2: for every sequence number s with s < 0x1000, s >= 0xefffff00 or
\* s = 0xffff0000, Parse returns nil whatever the object id, the chunk id and
\* the byte count are.
C2_OutOfRangeSeqIsInvalid ==
    (tpc = "parsed" /\ ~SeqInRange(traw.SeqNumber)) => tout = Nil

\* C3: an extended raw tag built from a valid sequence number, a valid object
\* id, a parent below 2^28, shrink and shadow flags and a 4-bit object type
\* decodes to a valid tag with ExtraValid set, chunk id 0, byte count 0, and
\* the object id, parent, flags and type it was built from.
C3_ExtendedRoundTrip ==
    (tpc = "parsed" /\ tenc.extra /\ SeqInRange(tin.seq) /\ ObjInRange(tin.obj))
    => /\ tout.valid
       /\ tout.ExtraValid
       /\ tout.SeqNumber = tin.seq
       /\ tout.ChunkID = <<0, 0>>
       /\ tout.NumberBytes = <<0, 0>>
       /\ tout.ObjectID = tin.obj
       /\ tout.ParentID = tin.chunk
       /\ tout.IsShrink = tenc.shrink
       /\ tout.Shadows = tenc.shadow
       /\ tout.ObjType = <<0, tenc.type>>

\* An extended tag with the largest parent, the shrink flag alone and type 3
\* has been decoded.
C3_Witness ==
    /\ tpc = "parsed"
    /\ tenc = [extra |-> TRUE, shrink |-> TRUE, shadow |-> FALSE, type |-> 3]
    /\ SeqInRange(tin.seq)
    /\ tin.obj = <<0, 257>>
    /\ tin.chunk = <<4095, 65535>>
    /\ tout.valid

\* C4: a plain raw tag with a valid sequence number, a valid object id and a
\* chunk id of at most 0xfffffff decodes to a valid tag with ExtraValid clear
\* and the same object id, chunk id and byte count.
C4_PlainRoundTrip ==
    (tpc = "parsed" /\ ~tenc.extra /\ SeqInRange(tin.seq) /\ ObjInRange(tin.obj)
        /\ Le(tin.chunk, <<4095, 65535>>))
    => /\ tout.valid
       /\ ~tout.ExtraValid
       /\ tout.SeqNumber = tin.seq
       /\ tout.ObjectID = tin.obj
       /\ tout.ChunkID = tin.chunk
       /\ tout.NumberBytes = tin.nbytes

\* A plain tag with the largest chunk id and a byte count of 2048 has been
\* decoded.
C4_Witness ==
    /\ tpc = "parsed"
    /\ ~tenc.extra
    /\ SeqInRange(tin.seq)
    /\ tin.obj = <<3, 65535>>
    /\ tin.chunk = <<4095, 65535>>
    /\ tin.nbytes = <<0, 2048>>
    /\ tout.valid

(***************************************************************************)
(* The program: what the claims say of an image, stated on its bytes       *)
(***************************************************************************)
\* The candidate geometries, and their enumeration order: page size first,
\* then spare size, then skip, each ascending.
AllCandidates ==
    {Settings(p, q, r) : p \in {1024, 2048, 4096, 8192, 16384},
                         q \in {32, 64, 128, 256, 512}, r \in {0, 2}}

Before(a, b) ==
    \/ a.PageSize < b.PageSize
    \/ (a.PageSize = b.PageSize /\ a.SpareSize < b.SpareSize)
    \/ (a.PageSize = b.PageSize /\ a.SpareSize = b.SpareSize /\ a.SpareSkip < b.SpareSkip)

\* Under geometry g: the offset of pair j, whether pair j lies wholly within
\* the image, and whether its page and its spare are both entirely 0xFF.
PairOff(g, j) == j * (g.PageSize + g.SpareSize)
PairFull(img, g, j) == PairOff(g, j + 1) <= Size(img)
PageBlank(img, g, j) == ErasedIn(img, PairOff(g, j), PairOff(g, j) + g.PageSize)
SpareBlank(img, g, j) == ErasedIn(img, PairOff(g, j) + g.PageSize, PairOff(g, j + 1))
PairBlank(img, g, j) == PageBlank(img, g, j) /\ SpareBlank(img, g, j)

\* Under geometry g: the decoded spare tag of pair j, whether pair j is a
\* header pair (valid tag, chunkID 0), and whether its checksum field is 0xFFFF.
TagAt(g, j) == PairOff(g, j) + g.PageSize + g.SpareSkip
PairTag(img, g, j) ==
    Parse([SeqNumber |-> Word(img, TagAt(g, j)), ObjectID |-> Word(img, TagAt(g, j) + 4),
           ChunkID |-> Word(img, TagAt(g, j) + 8), NumberBytes |-> Word(img, TagAt(g, j) + 12)])
TagValid(img, g, j) == PairTag(img, g, j).valid
HeaderPair(img, g, j) == TagValid(img, g, j) /\ PairTag(img, g, j).ChunkID = <<0, 0>>
SumOK(img, g, j) ==
    ByteAt(img, PairOff(g, j) + 8) = 255 /\ ByteAt(img, PairOff(g, j) + 9) = 255
GoodHeader(img, g, j) == HeaderPair(img, g, j) /\ SumOK(img, g, j)
BadHeader(img, g, j) == HeaderPair(img, g, j) /\ ~SumOK(img, g, j)

\* name is the name of the header in the page of pair j: the bytes of the
\* 256-byte name field before its first zero byte.
IsNameOf(img, g, j, name) ==
    /\ Len(name) <= 256
    /\ \A i \in 1..Len(name) :
          name[i] # 0 /\ name[i] = ByteAt(img, PairOff(g, j) + 10 + i - 1)
    /\ Len(name) < 256 => ByteAt(img, PairOff(g, j) + 10 + Len(name)) = 0

\* The two-record check of a candidate: two full pairs from offset 0, the tag
\* of pair 0 valid with chunkID 0, the tag of pair 1 valid.
Passes(img, c) ==
    /\ PairFull(img, c, 1)
    /\ HeaderPair(img, c, 0)
    /\ TagValid(img, c, 1)

NonePasses(img) == \A c \in AllCandidates : ~Passes(img, c)

\* The number of pairs the read loop keeps: the first pair that is not full
\* or is blank.
IsStop(img, g, n) ==
    /\ \A j \in 0..(n - 1) : PairFull(img, g, j) /\ ~PairBlank(img, g, j)
    /\ ~PairFull(img, g, n) \/ PairBlank(img, g, n)

(***************************************************************************)
(* C7, C6, C10: detectSettings                                             *)
(***************************************************************************)
\* C7: detectSettings returns the first candidate, in enumeration order, that
\* passes the two-record check read from offset 0, and returns an error only
\* when no candidate passes it.
C7_FirstPassingCandidate ==
    /\ pc = "detect_ok" =>
          /\ detected \in AllCandidates
          /\ Passes(image, detected)
          /\ \A c \in AllCandidates : Passes(image, c) => ~Before(c, detected)
    /\ pc = "detect_err" => NonePasses(image)

\* detectSettings returned a candidate that is not the first enumerated, on
\* an image that a later candidate passes as well.
C7_Witness ==
    /\ pc = "detect_ok"
    /\ detected # Settings(1024, 32, 0)
    /\ \E c \in AllCandidates : Before(detected, c) /\ Passes(image, c)

\* C6: when no candidate passes the two-record check, detectSettings returns
\* an error, the program is not aborted, and main scans with the default
\* geometry 2048/64/0.
C6_FallbackToDefault ==
    /\ outcome # "fatal"
    /\ pc = "detect_ok" => ~NonePasses(image)
    /\ (pc \in {"read", "done"} /\ NonePasses(image)) =>
          /\ detected = NoSettings
          /\ settings = Settings(2048, 64, 0)

\* An image shorter than two pairs of the smallest candidate has been scanned
\* with the default geometry.
C6_Witness ==
    /\ pc = "done"
    /\ Size(image) < 2 * (1024 + 32)
    /\ Size(image) > 0
    /\ settings = Settings(2048, 64, 0)
    /\ detected = NoSettings

\* C10: no record decode ever fails: under every candidate and under the
\* default geometry the spare holds the 16 bytes of the raw tag from skip and
\* the page holds the 510 bytes of the header, and no run takes the fatal exit.
C10_NoMalformedRecord ==
    /\ outcome # "fatal"
    /\ \A i \in 0..(NumCandidates - 1) :
          /\ Candidate(i).SpareSize - Candidate(i).SpareSkip >= 16
          /\ Candidate(i).PageSize >= 510
    /\ {Candidate(i) : i \in 0..(NumCandidates - 1)} = AllCandidates
    /\ ObjectHeaderSize = 510
    /\ SpareRawSize = 16
    /\ pc \in {"read", "decode", "done"} =>
          /\ settings.SpareSize - settings.SpareSkip >= 16
          /\ settings.PageSize >= 510

\* A scan under a detected geometry with skip 2 has decoded a spare and a
\* header page and has ended normally.
C10_Witness ==
    /\ pc = "done"
    /\ outcome = "eof"
    /\ settings.SpareSkip = 2
    /\ spareParsed # {}
    /\ pageDecoded # {}

(***************************************************************************)
(* C1, C5, C8, C9: the scan                                                *)
(***************************************************************************)
\* The image of C1: laid out with 2048/64/0, the header pair of the root
\* directory, then two erased pairs.
RootImage == [geo |-> <<2048, 64, 0>>, pairs |-> <<"H", "E", "E">>, tail |-> 0]

RootLine == [ObjectType |-> <<0, 3>>, Name |-> <<114, 111, 111, 116>>]

\* C1 as stated: on RootImage detectSettings returns exactly 2048/64/0, and
\* the scan yields exactly the header "root", a directory, and stops.
C1_DetectsRootImageGeometry ==
    image = RootImage =>
        /\ pc \in {"detect_ok", "detect_err", "read", "decode", "done"} =>
              detected = Settings(2048, 64, 0)
        /\ pc = "done" =>
              /\ outcome = "eof"
              /\ emitted = <<[idx |-> 0, line |-> RootLine]>>

\* C1 amended: on RootImage detectSettings never returns 2048/64/0 (the second
\* pair of that candidate is blank) and reports not-detected; main falls back
\* to the default geometry 2048/64/0, and the scan keeps one pair, yields
\* exactly the header "root", a directory, and stops.
C1_RootImageScannedByDefault ==
    image = RootImage =>
        /\ detected = NoSettings
        /\ pc # "detect_ok"
        /\ pc \in {"read", "decode", "done"} => settings = Settings(2048, 64, 0)
        /\ pc = "done" =>
              /\ outcome = "eof"
              /\ Len(pages) = 1
              /\ emitted = <<[idx |-> 0, line |-> RootLine]>>

\* The scan of RootImage has ended with one header emitted.
C1_Witness ==
    /\ image = RootImage
    /\ pc = "done"
    /\ Len(emitted) = 1

\* C5: a header pair whose checksum field is not 0xFFFF ends the scan at
\* once: its header is not emitted and no later pair is decoded or emitted;
\* when the first header pair of the scan is such a pair, no header is emitted.
C5_ChecksumMismatchAborts ==
    /\ outcome = "checksum" =>
          /\ pc = "done"
          /\ k < Len(pages)
          /\ BadHeader(image, settings, k)
          /\ \A i \in 1..Len(emitted) : emitted[i].idx < k
          /\ spareParsed = 0..k
          /\ pageDecoded \subseteq 0..k
    /\ pc \in {"decode", "done"} =>
          \A j \in spareParsed :
              BadHeader(image, settings, j) =>
                  /\ outcome = "checksum"
                  /\ k = j
                  /\ \A i \in 1..Len(emitted) : emitted[i].idx # j
    /\ pc = "done" =>
          \A j \in 0..(Len(pages) - 1) :
              (/\ BadHeader(image, settings, j)
               /\ \A i \in 0..(j - 1) : ~HeaderPair(image, settings, i))
              => (emitted = <<>> /\ outcome = "checksum")

\* A scan has been aborted by a checksum mismatch after it emitted a header,
\* with a good header pair left undecoded behind the mismatch.
C5_Witness ==
    /\ outcome = "checksum"
    /\ Len(emitted) >= 1
    /\ Len(pages) > k + 1
    /\ GoodHeader(image, settings, k + 1)

C9_EmitsExactlyGoodHeaders ==
    pc = "done" =>
        LET g == settings
            kept == 0..(Len(pages) - 1)
            reached == {j \in kept : \A i \in 0..(j - 1) : ~BadHeader(image, g, i)}
        IN  /\ \A i \in 1..(Len(emitted) - 1) : emitted[i].idx < emitted[i + 1].idx
            /\ {emitted[i].idx : i \in 1..Len(emitted)}
                 = {j \in reached : GoodHeader(image, g, j)}
            /\ \A i \in 1..Len(emitted) :
                  /\ emitted[i].line.ObjectType = Word(image, PairOff(g, emitted[i].idx))
                  /\ IsNameOf(image, g, emitted[i].idx, emitted[i].line.Name)
            /\ spareParsed = reached
            /\ pageDecoded = {j \in reached : HeaderPair(image, g, j)}

\* A scan has skipped a pair with an invalid tag without decoding its page,
\* has passed a data pair, and has emitted a header that comes after the
\* skipped pair.
C9_Witness ==
    /\ pc = "done"
    /\ \E j \in spareParsed :
          /\ ~TagValid(image, settings, j)
          /\ j \notin pageDecoded
          /\ \E i \in 1..Len(emitted) : emitted[i].idx > j
    /\ \E d \in spareParsed :
          TagValid(image, settings, d) /\ ~HeaderPair(image, settings, d)
====
